---------------------------- MODULE Spec2Model ----------------------------
(***************************************************************************)
(* A model of the prompt-tool retrieval pipeline: prompts, attached files, *)
(* the blob store, the embeddings table, the indexing orchestrator         *)
(* (EmbeddingService.reindexPrompt), the vector search and the HTTP        *)
(* handlers that drive them.                                               *)
(*                                                                         *)
(* Texts are sequences of one-character strings.  The program logic is     *)
(* written once, as operators over a "world" record (the database tables   *)
(* and the blob store) and a "task" record (one request with its program   *)
(* counter and locals); the specifications differ only in whether a        *)
(* request runs to completion in one step or one await at a time.          *)
(***************************************************************************)
EXTENDS Integers, Sequences, FiniteSets, TLC

\* ------------------------------------------------------------------ bounds

\* Scaled-down configuration of the services (the code's defaults are
\* chunkSize 1000, chunkOverlap 200, 3072 dimensions).
ChunkSize == 4
ChunkOverlap == 1
Dimensions == 2
\* Sizes of the id pools: prompts and files the requests may create, the
\* prompts of the search specification (which attaches no files), and the
\* requests in flight at once.
MaxPrompts == 1
MaxFiles == 2
MaxSearchPrompts == 2
MaxTasks == 2
\* The number of requests a behaviour of the concurrent specification holds.
MaxRequests == 4
\* The longest answer drawn for a call of the OpenAI embeddings API.
MaxBatch == 3
\* The longest text drawn for a call of the chunker alone.
MaxTextLen == 5
MaxNameLen == 4

\* ------------------------------------------------------------- text helpers

Max2(a, b) == IF a >= b THEN a ELSE b
Min2(a, b) == IF a <= b THEN a ELSE b

\* A String.prototype.slice(-n) on a sequence of characters.
SliceLast(s, n) ==
  IF n = 0 THEN s   \* slice(-0) is slice(0): the whole string
  ELSE SubSeq(s, Max2(1, Len(s) - n + 1), Len(s))

\* s starts with pre at position i (1-based)
MatchAt(s, pre, i) ==
  /\ i + Len(pre) - 1 <= Len(s)
  /\ \A k \in 1..Len(pre) : s[i + k - 1] = pre[k]

RECURSIVE SplitFrom(_, _, _, _)
\* text.split(sep) for a non-empty separator: the pieces from position i on,
\* start being where the running piece began.
SplitFrom(s, sep, start, i) ==
  IF i > Len(s) THEN << SubSeq(s, start, Len(s)) >>
  ELSE IF MatchAt(s, sep, i)
       THEN << SubSeq(s, start, i - 1) >>
              \o SplitFrom(s, sep, i + Len(sep), i + Len(sep))
       ELSE SplitFrom(s, sep, start, i + 1)

\* String.prototype.split: with the empty separator, one piece per
\* character (none for the empty string); otherwise at least one piece.
Split(s, sep) ==
  IF sep = << >> THEN [k \in 1..Len(s) |-> << s[k] >>]
  ELSE SplitFrom(s, sep, 1, 1)

Whitespace == {" ", "\n", "\t"}

RECURSIVE TrimLeft(_)
TrimLeft(s) ==
  IF s # << >> /\ Head(s) \in Whitespace THEN TrimLeft(Tail(s)) ELSE s

RECURSIVE TrimRight(_)
TrimRight(s) ==
  IF s # << >> /\ s[Len(s)] \in Whitespace
  THEN TrimRight(SubSeq(s, 1, Len(s) - 1)) ELSE s

\* String.prototype.trim
Trim(s) == TrimRight(TrimLeft(s))

\* ------------------------------------------------------------ text chunker

Separators == << <<"\n", "\n">>, <<"\n">>, <<".", " ">>, <<" ">>, << >> >>

\* TextChunker.createChunksWithOverlap
createChunksWithOverlap(chunks, overlap) ==
  IF overlap = 0 \/ Len(chunks) <= 1 THEN chunks
  ELSE [i \in 1..Len(chunks) |->
          IF i > 1 THEN SliceLast(chunks[i - 1], overlap) \o chunks[i]
          ELSE chunks[i]]

RECURSIVE splitTextRecursive(_, _, _, _)
RECURSIVE MergeSplits(_, _, _, _, _, _, _, _)

\* The for loop of splitTextRecursive over splits[i..], with the chunks
\* pushed so far and the running currentChunk.
MergeSplits(splits, i, chunks, currentChunk, separator, remaining, size, overlap) ==
  IF i > Len(splits)
  THEN IF currentChunk # << >> THEN Append(chunks, currentChunk) ELSE chunks
  ELSE
    LET split == splits[i]
        testChunk == IF currentChunk # << >>
                     THEN currentChunk \o separator \o split
                     ELSE split
    IN IF Len(testChunk) <= size
       THEN MergeSplits(splits, i + 1, chunks, testChunk,
                        separator, remaining, size, overlap)
       ELSE
         LET saved == IF currentChunk # << >>
                      THEN Append(chunks, currentChunk) ELSE chunks
         IN IF Len(split) > size
            THEN MergeSplits(splits, i + 1,
                             saved \o splitTextRecursive(split, remaining, size, overlap),
                             << >>, separator, remaining, size, overlap)
            ELSE MergeSplits(splits, i + 1, saved, split,
                             separator, remaining, size, overlap)

\* TextChunker.splitTextRecursive
splitTextRecursive(text, separators, size, overlap) ==
  IF Len(separators) = 0 \/ Len(text) <= size
  THEN createChunksWithOverlap(<< text >>, overlap)
  ELSE
    LET separator == Head(separators)
        remaining == Tail(separators)
        splits == Split(text, separator)
    IN IF Len(splits) = 1
       THEN splitTextRecursive(text, remaining, size, overlap)
       ELSE createChunksWithOverlap(
              MergeSplits(splits, 1, << >>, << >>, separator, remaining, size, overlap),
              overlap)

\* TextChunker.splitText
splitText(text, size, overlap) ==
  splitTextRecursive(text, Separators, size, overlap)


\* ------------------------------------------------------- content extractor

\* MIME types are <<type, subtype>> pairs, so that startsWith('text/') is a
\* test on the first component.
TextPlain == <<"text", "plain">>
OctetStream == <<"application", "octet-stream">>
NoMime == <<"", "">>            \* multer gave no mimetype (falsy)

LowerOf(c) == CASE c = "T" -> "t" [] c = "X" -> "x" [] OTHER -> c
ToLowerCase(s) == [k \in 1..Len(s) |-> LowerOf(s[k])]

\* ContentExtractor.detectMimeType: the static extension table.
detectMimeType(filename) ==
  LET parts == Split(filename, <<".">>)
      ext == ToLowerCase(parts[Len(parts)])
  IN CASE ext = <<"t", "x", "t">> -> TextPlain
       [] ext = <<"m", "d">> -> <<"text", "markdown">>
       [] ext = <<"m", "a", "r", "k", "d", "o", "w", "n">> -> <<"text", "markdown">>
       [] ext = <<"h", "t", "m", "l">> -> <<"text", "html">>
       [] ext = <<"h", "t", "m">> -> <<"text", "html">>
       [] ext = <<"j", "s", "o", "n">> -> <<"application", "json">>
       [] ext = <<"j", "s">> -> TextPlain
       [] ext = <<"t", "s">> -> TextPlain
       [] ext = <<"c", "s", "s">> -> TextPlain
       [] ext = <<"x", "m", "l">> -> <<"text", "xml">>
       [] ext = <<"p", "d", "f">> -> <<"application", "pdf">>
       [] OTHER -> OctetStream

\* The MIME types whose extraction is modelled: text/plain and the other
\* text/* types that fall to the default branch (plain text), and the
\* types the default branch rejects.  Markdown, HTML, JSON and PDF rewrite
\* the content and are not drawn as inputs.
Rewriting == { <<"text", "markdown">>, <<"text", "x-markdown">>,
               <<"text", "html">>, <<"application", "json">>,
               <<"application", "pdf">> }

\* ContentExtractor.extractText: [ok, text]; ok = FALSE is the thrown
\* "Unsupported MIME type" error.
extractText(content, mimeType) ==
  IF mimeType = TextPlain THEN [ok |-> TRUE, text |-> Trim(content)]
  ELSE IF mimeType[1] = "text" /\ mimeType \notin Rewriting
       THEN [ok |-> TRUE, text |-> Trim(content)]
       ELSE [ok |-> FALSE, text |-> << >>]

\* --------------------------------------------------------------- blob store

SafeChars == {"a", "b", "c", "t", "x", "T", "X", "n", "i", ".", "_", "-", "0", "1"}

\* NextCloudStorage.generateFilePath: <<domainId, promptId, sanitized name>>
generateFilePath(domainId, promptId, filename) ==
  << domainId, promptId,
     [k \in 1..Len(filename) |->
        IF filename[k] \in SafeChars THEN filename[k] ELSE "_"] >>

\* ------------------------------------------------------ embedding provider

CharCode(c) ==
  CASE c = "a" -> 97 [] c = "b" -> 98 [] c = "c" -> 99 [] c = "d" -> 100
    [] c = "e" -> 101 [] c = "f" -> 102 [] c = "g" -> 103
    [] c = " " -> 32 [] c = "\n" -> 10 [] c = "." -> 46 [] OTHER -> 63

\* Width of the hash and of the generator state: the code's are 32 and 31
\* bits; the model keeps the wrap-around at a width TLC's integers hold.
HashModulus == 32768

RECURSIVE HashFrom(_, _, _)
HashFrom(str, i, hash) ==
  IF i > Len(str) THEN hash
  ELSE HashFrom(str, i + 1, (hash * 31 + CharCode(str[i])) % HashModulus)

\* MockEmbeddingsService.simpleHash: hash = hash * 31 + char, wrapped.
simpleHash(str) == HashFrom(str, 1, 0)

RECURSIVE LcgVector(_, _)
\* MockEmbeddingsService.generateDeterministicVector: a linear congruential
\* generator seeded with the hash yields one value per dimension, here on
\* the grid {-3, -1, 1, 3} (the code's values are floats in [-1, 1]; the
\* L2 normalisation is a positive scaling, which the cosine ignores).
LcgVector(seed, n) ==
  IF n = 0 THEN << >>
  ELSE LET next == (seed * 1103 + 12345) % HashModulus
       IN << 2 * ((next * 4) \div HashModulus) - 3 >> \o LcgVector(next, n - 1)

\* MockEmbeddingsService.embedText
embedText(text) == LcgVector(simpleHash(text), Dimensions)

\* MockEmbeddingsService.embedBatch
embedBatch(texts) == [k \in 1..Len(texts) |-> embedText(texts[k])]

RECURSIVE Dot(_, _, _)
Dot(a, b, i) == IF i > Len(a) THEN 0 ELSE a[i] * b[i] + Dot(a, b, i + 1)

ISqrt(n) == CHOOSE r \in 0..100 : r * r <= n /\ n < (r + 1) * (r + 1)

\* The similarity score of the search query, 1 - (vector <=> query): the
\* cosine similarity, in hundredths, rounded toward zero; 0 when either
\* magnitude is 0.
similarityScore(a, b) ==
  LET d == Dot(a, b, 1)
      na == Dot(a, a, 1)
      nb == Dot(b, b, 1)
  IN IF na = 0 \/ nb = 0 THEN 0
     ELSE LET m == ISqrt((10000 * d * d) \div (na * nb))
          IN IF d < 0 THEN 0 - m ELSE m

\* ------------------------------------------------------------------ inputs

Domains == {"A", "B"}

\* Prompt texts a request may carry: one chunk, and two chunks.
TextOne == <<"a", "b">>
TextTwo == <<"a", "b", " ", "c", "d">>
PromptTexts == {TextOne, TextTwo}

\* Files a request may carry (multer's originalname, mimetype, buffer): a
\* text file of two chunks, a binary file no extractor accepts, and a
\* second text file with the first one's name.
NameTxt == <<"a", ".", "t", "x", "t">>
NameBin == <<"b", ".", "b", "i", "n">>
UploadTxt == [originalname |-> NameTxt, mimetype |-> NoMime,
              buffer |-> <<" ", "c", "d", " ", "e", "f">>]
UploadBin == [originalname |-> NameBin, mimetype |-> NoMime, buffer |-> <<"g">>]
UploadTxtAgain == [originalname |-> NameTxt, mimetype |-> TextPlain,
                   buffer |-> <<"g">>]
Uploads == {UploadTxt, UploadBin, UploadTxtAgain}

\* A zero-byte file as multer hands it over: the buffer is empty.
UploadEmpty == [originalname |-> NameTxt, mimetype |-> TextPlain, buffer |-> << >>]

\* ------------------------------------------------------------------- state

VARIABLES
  prompts,       \* table prompts: [id, domainId, prompt]
  promptFiles,   \* table prompt_files: [id, promptId, domainId, filename, mimeType, nextcloudPath]
  embeddings,    \* table embeddings: [id, domainId, promptId, chunkId, text, vector]
  blobs,         \* the blob store: [path, content], one per path
  nextPromptId,  \* the next fresh prompt id
  nextFileId,    \* the next fresh file id
  useMock,       \* the services' useMock configuration
  tasks,         \* the requests in flight: slot -> task record
  begun,         \* the number of requests that came in to run concurrently
  resp           \* the last recorded request, with its response

vars == << prompts, promptFiles, embeddings, blobs, nextPromptId, nextFileId,
           useMock, tasks, begun, resp >>

\* The tables and the blob store as one record, as the handlers see them.
\* reserved: embedding ids a running reindex remembers from before its
\* delete, which a fresh id may not repeat.
World(reserved) ==
  [prompts |-> prompts, promptFiles |-> promptFiles, embeddings |-> embeddings,
   blobs |-> blobs, nextPromptId |-> nextPromptId, nextFileId |-> nextFileId,
   useMock |-> useMock, reserved |-> reserved]

\* ----------------------------------------------------------------- tables

PromptById(w, id) == {p \in w.prompts : p.id = id}
\* The handlers' lookup were it by id alone
PromptOwnedByAnyTenant(w, id, dom) == {p \in w.prompts : p.id = id}
PromptOwned(w, id, dom) == {p \in w.prompts : p.id = id /\ p.domainId = dom}
FilesOf(w, pid) == {f \in w.promptFiles : f.promptId = pid}
EmbeddingsOf(w, pid) == {e \in w.embeddings : e.promptId = pid}
BlobAt(w, path) == {b \in w.blobs : b.path = path}

RECURSIVE SortById(_)
\* a set of rows as a sequence, by id
SortById(rows) ==
  IF rows = {} THEN << >>
  ELSE LET first == CHOOSE r \in rows : \A o \in rows : r.id <= o.id
       IN << first >> \o SortById(rows \ {first})

RECURSIVE FreshIds(_, _, _)
\* the n smallest ids from `from` on that are not in `used`
FreshIds(used, n, from) ==
  IF n = 0 THEN << >>
  ELSE IF from \in used THEN FreshIds(used, n, from + 1)
       ELSE << from >> \o FreshIds(used, n - 1, from + 1)

\* ON DELETE CASCADE of prompt_files.prompt_id and embeddings.prompt_id
DeletePromptCascade(w, pid) ==
  [w EXCEPT !.prompts = {p \in @ : p.id # pid},
            !.promptFiles = {f \in @ : f.promptId # pid},
            !.embeddings = {e \in @ : e.promptId # pid}]

\* ------------------------------------------------------------------- tasks

NoTask ==
  [op |-> "none", dom |-> "", pid |-> 0, fid |-> 0, bodyOk |-> TRUE,
   data |-> << >>, files |-> << >>, pc |-> "done", okStatus |-> 0, i |-> 0,
   chunks |-> << >>, rfiles |-> << >>, failed |-> {}, vectors |-> << >>,
   pre |-> {}, inserted |-> {}, status |-> 0, count |-> -1,
   query |-> << >>, topK |-> 0, minSimilarity |-> 0, scope |-> 0,
   mock |-> TRUE, results |-> << >>, calls |-> << >>, includeContext |-> TRUE]

NewTask(op, dom, pid) ==
  [NoTask EXCEPT !.op = op, !.dom = dom, !.pid = pid, !.pc = "start"]

Out(w, t) == {[w |-> w, t |-> t]}
Done(t, status) == [t EXCEPT !.pc = "done", !.status = status]

\* --------------------------------------------------- indexing orchestrator

\* EmbeddingService.chunkText
chunkText(text) == splitText(text, ChunkSize, ChunkOverlap)

\* EmbeddingService.processPromptContent: chunk ids prompt_<index>
processPromptContent(promptText) ==
  IF promptText # << >>
  THEN LET c == chunkText(promptText)
       IN [k \in 1..Len(c) |-> [text |-> c[k], chunkId |-> <<"prompt", k - 1>>]]
  ELSE << >>

\* processFileContent were it to leave the index out of the chunk id
processFileContentNoIndex(fileId, content) ==
  LET c == chunkText(content)
  IN [k \in 1..Len(c) |-> [text |-> c[k], chunkId |-> <<"file", fileId, 0>>]]

\* EmbeddingService.processFileContent: chunk ids file_<fileId>_<index>
processFileContent(fileId, content) ==
  LET c == chunkText(content)
  IN [k \in 1..Len(c) |-> [text |-> c[k], chunkId |-> <<"file", fileId, k - 1>>]]

\* generateEmbeddings were it to fall back to the mock model
generateEmbeddingsOrMock(w, texts) == [ok |-> TRUE, vectors |-> embedBatch(texts)]

\* EmbeddingService.generateEmbeddings: [ok, vectors]
generateEmbeddings(w, texts) ==
  IF w.useMock THEN [ok |-> TRUE, vectors |-> embedBatch(texts)]
  ELSE [ok |-> FALSE, vectors |-> << >>]

\* reindexPrompt were it to keep the old rows
deleteNothing(w, domainId, promptId) == w

\* EmbeddingService.deleteEmbeddingsForPrompt(domainId, promptId)
deleteEmbeddingsForPrompt(w, domainId, promptId) ==
  [w EXCEPT !.embeddings = {e \in @ : e.promptId # promptId}]

\* The records were the provider to answer differently from call to call
EmbeddingRecordsUnstable(w, t) ==
  LET known == {e.id : e \in w.embeddings} \cup w.reserved \cup {e.id : e \in t.pre}
      batch == FreshIds({id[2] : id \in {x \in known : x[1] = t.pid}}, 1, 1)[1]
  IN {[id |-> <<t.pid, batch, k>>, domainId |-> t.dom, promptId |-> t.pid,
       chunkId |-> t.chunks[k].chunkId, text |-> t.chunks[k].text,
       vector |-> [d \in 1..Dimensions |-> batch]]
      : k \in 1..Len(t.chunks)}

\* The records saveEmbeddings prepares: vectors[index] || [].  The row ids
\* the database draws (defaultRandom) are <<promptId, batch, index>> with a
\* batch number no row of the prompt has, or had when the reindex began.
EmbeddingRecords(w, t) ==
  LET known == {e.id : e \in w.embeddings} \cup w.reserved \cup {e.id : e \in t.pre}
      batch == FreshIds({id[2] : id \in {x \in known : x[1] = t.pid}}, 1, 1)[1]
  IN {[id |-> <<t.pid, batch, k>>, domainId |-> t.dom, promptId |-> t.pid,
       chunkId |-> t.chunks[k].chunkId, text |-> t.chunks[k].text,
       vector |-> IF k <= Len(t.vectors) THEN t.vectors[k] ELSE << >>]
      : k \in 1..Len(t.chunks)}

\* The INSERT were it to keep the rows that precede the one it rejects
InsertEmbeddingsPartial(w, records) ==
  IF \/ \E r \in records : PromptById(w, r.promptId) = {}
     \/ \E r \in records : Len(r.vector) # Dimensions
  THEN [ok |-> FALSE,
        w |-> [w EXCEPT !.embeddings =
                 @ \cup {r \in records : /\ PromptById(w, r.promptId) # {}
                                          /\ Len(r.vector) = Dimensions}]]
  ELSE [ok |-> TRUE, w |-> [w EXCEPT !.embeddings = @ \cup records]]

\* The INSERT were its rows never to reach the table
InsertEmbeddingsLost(w, records) == [ok |-> TRUE, w |-> w]

\* The INSERT were the vector column to take any dimension
InsertEmbeddingsAnyDimension(w, records) ==
  IF \E r \in records : PromptById(w, r.promptId) = {}
  THEN [ok |-> FALSE, w |-> w]
  ELSE [ok |-> TRUE, w |-> [w EXCEPT !.embeddings = @ \cup records]]

\* The INSERT were the table to have no foreign key
InsertEmbeddingsNoForeignKey(w, records) ==
  IF \E r \in records : Len(r.vector) # Dimensions
  THEN [ok |-> FALSE, w |-> w]
  ELSE [ok |-> TRUE, w |-> [w EXCEPT !.embeddings = @ \cup records]]

\* The INSERT of saveEmbeddings under the table's constraints: prompt_id
\* REFERENCES prompts(id), and a vector column of fixed dimension.
InsertEmbeddings(w, records) ==
  IF \/ \E r \in records : PromptById(w, r.promptId) = {}
     \/ \E r \in records : Len(r.vector) # Dimensions
  THEN [ok |-> FALSE, w |-> w]
  ELSE [ok |-> TRUE, w |-> [w EXCEPT !.embeddings = @ \cup records]]

\* The file loop were a file's failure to end the reindex
ProcessFileOrThrow(w, t) ==
  LET file == t.rfiles[t.i]
      blob == BlobAt(w, file.nextcloudPath)
      ex == IF blob = {} THEN [ok |-> FALSE, text |-> << >>]
            ELSE extractText((CHOOSE b \in blob : TRUE).content, file.mimeType)
  IN IF ex.ok
     THEN [t EXCEPT !.chunks = @ \o processFileContent(file.id, ex.text),
                    !.i = @ + 1,
                    !.pc = IF t.i < Len(t.rfiles) THEN "rx_file" ELSE "rx_save"]
     ELSE [Done(t, 500) EXCEPT !.failed = @ \cup {file.id}]

\* One file of reindexPrompt's loop: download, extract, chunk; a failure
\* is logged and the file skipped.
ProcessFile(w, t) ==
  LET file == t.rfiles[t.i]
      blob == BlobAt(w, file.nextcloudPath)
      ex == IF blob = {} THEN [ok |-> FALSE, text |-> << >>]
            ELSE extractText((CHOOSE b \in blob : TRUE).content, file.mimeType)
      nextPc == IF t.i < Len(t.rfiles) THEN "rx_file" ELSE "rx_save"
  IN IF ex.ok
     THEN [t EXCEPT !.chunks = @ \o processFileContent(file.id, ex.text),
                    !.i = @ + 1, !.pc = nextPc]
     ELSE [t EXCEPT !.failed = @ \cup {file.id}, !.i = @ + 1, !.pc = nextPc]

\* The load of the prompt were a missing prompt to count as one without text
LoadPromptOrEmpty(w, t) ==
  LET found == PromptById(w, t.pid)
  IN IF found = {} THEN [t EXCEPT !.chunks = << >>, !.pc = "rx_files"]
     ELSE [t EXCEPT !.chunks = processPromptContent((CHOOSE p \in found : TRUE).prompt),
                    !.pc = "rx_files"]

\* reindexPrompt's load of the prompt, by id: a missing prompt throws
\* "Prompt <id> not found"; otherwise the text is chunked.
LoadPrompt(w, t) ==
  LET found == PromptById(w, t.pid)
  IN IF found = {} THEN Done(t, 500)
     ELSE [t EXCEPT !.chunks = processPromptContent((CHOOSE p \in found : TRUE).prompt),
                    !.pc = "rx_files"]

\* The call a step of reindexPrompt makes, added to the request's log
Called(t, call) == [t EXCEPT !.calls = Append(@, call)]

\* EmbeddingService.reindexPrompt(t.dom, t.pid), one database, storage or
\* provider call per step; a throw ends the request with status 500.
ReindexStep(w, t) ==
  CASE t.pc = "rx_delete" ->
         Out(deleteEmbeddingsForPrompt(w, t.dom, t.pid),
             Called([t EXCEPT !.pre = EmbeddingsOf(w, t.pid), !.pc = "rx_load"],
                    "deleteEmbeddings"))
    [] t.pc = "rx_load" -> Out(w, Called(LoadPrompt(w, t), "selectPrompt"))
    [] t.pc = "rx_files" ->
         LET files == SortById(FilesOf(w, t.pid))
         IN Out(w, Called([t EXCEPT !.rfiles = files, !.i = 1,
                             !.pc = IF files = << >> THEN "rx_save" ELSE "rx_file"],
                          "selectFiles"))
    [] t.pc = "rx_file" -> Out(w, Called(ProcessFile(w, t), "downloadFile"))
    [] t.pc = "rx_save" ->
         IF Len(t.chunks) = 0
         THEN Out(w, [Done(t, t.okStatus) EXCEPT !.count = 0])
         ELSE LET g == generateEmbeddings(w, [k \in 1..Len(t.chunks) |-> t.chunks[k].text])
                  t2 == Called(t, "generateEmbeddings")
              IN IF g.ok THEN Out(w, [t2 EXCEPT !.vectors = g.vectors, !.pc = "rx_insert"])
                 ELSE Out(w, Done(t2, 500))
    [] t.pc = "rx_insert" ->
         LET records == EmbeddingRecords(w, t)
             ins == InsertEmbeddings(w, records)
             t2 == Called(t, "insertEmbeddings")
         IN IF ~ins.ok THEN Out(ins.w, Done(t2, 500))
            ELSE Out(ins.w, [Done(t2, t.okStatus) EXCEPT !.count = Len(t.chunks),
                                                         !.inserted = records])

\* ------------------------------------------------------------ vector search

\* The search's rows were the WHERE clause to leave out the tenant id
SearchScopeAllTenants(w, domainId, scope) ==
  {e \in w.embeddings :
     /\ scope # 0 => e.promptId = scope
     /\ PromptById(w, e.promptId) # {}}

\* The rows of the search's FROM embeddings INNER JOIN prompts WHERE ...:
\* scope = 0 is a search without promptId.
SearchScope(w, domainId, scope) ==
  {e \in w.embeddings :
     /\ IF scope # 0 THEN e.domainId = domainId /\ e.promptId = scope
        ELSE e.domainId = domainId
     /\ PromptById(w, e.promptId) # {}}

\* A selected row: 1 - (embedding <=> query) AS similarity
SearchResult(e, qv) ==
  [embeddingId |-> e.id, promptId |-> e.promptId, chunkId |-> e.chunkId,
   text |-> e.text, similarityScore |-> similarityScore(e.vector, qv)]

RECURSIVE RankedOrders(_, _)
\* ORDER BY distance LIMIT k: every sequence of at most k selected rows in
\* non-increasing score order that leaves out no row scoring higher than
\* one it holds.  Rows of equal score come in an order the database picks.
RankedOrders(rows, k) ==
  IF k = 0 \/ rows = {} THEN { << >> }
  ELSE LET best == {r \in rows : \A o \in rows : r.similarityScore >= o.similarityScore}
       IN UNION { { << r >> \o rest : rest \in RankedOrders(rows \ {r}, k - 1) }
                  : r \in best }

RECURSIVE AnyOrders(_, _)
\* LIMIT k without ORDER BY: any k of the rows, in any order
AnyOrders(rows, k) ==
  IF k = 0 \/ rows = {} THEN { << >> }
  ELSE UNION { { << r >> \o rest : rest \in AnyOrders(rows \ {r}, k - 1) } : r \in rows }

\* similaritySearch were its LIMIT to cut rows the database has not ordered
similaritySearchUnordered(w, domainId, qv, topK, minSimilarity, scope) ==
  LET selected == {SearchResult(e, qv) : e \in SearchScope(w, domainId, scope)}
  IN { SelectSeq(o, LAMBDA r : r.similarityScore >= minSimilarity)
       : o \in AnyOrders(selected, topK) }

\* similaritySearch were it to return the limited rows unfiltered
similaritySearchNoThreshold(w, domainId, qv, topK, minSimilarity, scope) ==
  RankedOrders({SearchResult(e, qv) : e \in SearchScope(w, domainId, scope)}, topK)

\* VectorSearchService.similaritySearch, given the query's embedding: the
\* result lists the database's order allows.
similaritySearch(w, domainId, qv, topK, minSimilarity, scope) ==
  LET selected == {SearchResult(e, qv) : e \in SearchScope(w, domainId, scope)}
  IN { SelectSeq(o, LAMBDA r : r.similarityScore >= minSimilarity)
       : o \in RankedOrders(selected, topK) }

\* VectorSearchService.generateQueryEmbedding: the mock's vector, or what
\* the external provider answers: a vector of the configured dimension.
ProviderVectors == { <<-1, -3>> }
generateQueryEmbedding(mock, query) ==
  IF mock THEN {embedText(query)}
  ELSE {[k \in 1..Dimensions |-> IF k <= 2 THEN v[k] ELSE 1] : v \in ProviderVectors}

\* VectorSearchService.getEmbeddingStats
getEmbeddingStats(w, domainId) ==
  LET rows == {e \in w.embeddings : e.domainId = domainId}
  IN [totalEmbeddings |-> Cardinality(rows),
      promptsWithEmbeddings |-> Cardinality({e.promptId : e \in rows})]

RECURSIVE GroupByPromptBestOnly(_, _, _, _)
\* The loop were it to count only the rows that set a new best chunk
GroupByPromptBestOnly(rows, i, minSimilarity, map) ==
  IF i > Len(rows) THEN map
  ELSE
    LET r == rows[i]
        at == {k \in 1..Len(map) : map[k].promptId = r.promptId}
    IN IF r.similarityScore < minSimilarity \/ at # {}
       THEN GroupByPromptBestOnly(rows, i + 1, minSimilarity, map)
       ELSE GroupByPromptBestOnly(rows, i + 1, minSimilarity,
              Append(map, [promptId |-> r.promptId, maxSimilarity |-> r.similarityScore,
                           bestChunk |-> r.text, chunkCount |-> 1]))

RECURSIVE GroupByPromptLatest(_, _, _, _)
\* The loop were every passing row to replace its prompt's entry
GroupByPromptLatest(rows, i, minSimilarity, map) ==
  IF i > Len(rows) THEN map
  ELSE
    LET r == rows[i]
        at == {k \in 1..Len(map) : map[k].promptId = r.promptId}
        entry(n) == [promptId |-> r.promptId, maxSimilarity |-> r.similarityScore,
                     bestChunk |-> r.text, chunkCount |-> n]
    IN IF r.similarityScore < minSimilarity
       THEN GroupByPromptLatest(rows, i + 1, minSimilarity, map)
       ELSE IF at = {}
            THEN GroupByPromptLatest(rows, i + 1, minSimilarity, Append(map, entry(1)))
            ELSE LET k == CHOOSE x \in at : TRUE
                 IN GroupByPromptLatest(rows, i + 1, minSimilarity,
                      [map EXCEPT ![k] = entry(map[k].chunkCount + 1)])

RECURSIVE GroupByPrompt(_, _, _, _)
\* The loop of findRelatedPrompts over the ordered rows: the Map as a
\* sequence of entries in insertion order.
GroupByPrompt(rows, i, minSimilarity, map) ==
  IF i > Len(rows) THEN map
  ELSE
    LET r == rows[i]
        score == r.similarityScore
        at == {k \in 1..Len(map) : map[k].promptId = r.promptId}
    IN IF score < minSimilarity
       THEN GroupByPrompt(rows, i + 1, minSimilarity, map)
       ELSE IF at = {}
            THEN GroupByPrompt(rows, i + 1, minSimilarity,
                   Append(map, [promptId |-> r.promptId, maxSimilarity |-> score,
                                bestChunk |-> r.text, chunkCount |-> 1]))
            ELSE LET k == CHOOSE x \in at : TRUE
                 IN IF score > map[k].maxSimilarity
                    THEN GroupByPrompt(rows, i + 1, minSimilarity,
                           [map EXCEPT ![k] = [promptId |-> r.promptId,
                                               maxSimilarity |-> score,
                                               bestChunk |-> r.text,
                                               chunkCount |-> map[k].chunkCount + 1]])
                    ELSE GroupByPrompt(rows, i + 1, minSimilarity,
                           [map EXCEPT ![k].chunkCount = @ + 1])

RECURSIVE StableSortDesc(_)
\* Array.prototype.sort by maxSimilarity, descending, stable
StableSortDesc(entries) ==
  IF entries = << >> THEN << >>
  ELSE LET k == CHOOSE x \in 1..Len(entries) :
                  /\ \A y \in 1..Len(entries) :
                       entries[x].maxSimilarity >= entries[y].maxSimilarity
                  /\ \A y \in 1..(x - 1) :
                       entries[y].maxSimilarity < entries[x].maxSimilarity
       IN << entries[k] >>
            \o StableSortDesc(SubSeq(entries, 1, k - 1)
                                \o SubSeq(entries, k + 1, Len(entries)))

\* VectorSearchService.findRelatedPrompts, given the query's embedding
findRelatedPrompts(w, domainId, qv, topK, minSimilarity) ==
  LET selected == {SearchResult(e, qv) : e \in SearchScope(w, domainId, 0)}
  IN { LET sorted == StableSortDesc(GroupByPrompt(o, 1, minSimilarity, << >>))
       IN SubSeq(sorted, 1, Min2(topK, Len(sorted)))
       : o \in RankedOrders(selected, Cardinality(selected)) }

\* ------------------------------------------------------------ HTTP handlers

\* storage.uploadFile: putFileContents with overwrite
PutBlob(w, path, content) ==
  [w EXCEPT !.blobs = {b \in @ : b.path # path}
                        \cup {[path |-> path, content |-> content]}]

\* storage.deleteFile: a file that does not exist is skipped
DeleteBlob(w, path) == [w EXCEPT !.blobs = {b \in @ : b.path # path}]

\* The handlers were they to answer without reindexing
AnswerWithoutReindex(t, okStatus) == Done(t, okStatus)

\* The call of embeddingService.reindexPrompt(domainId, promptId) a handler
\* awaits before it answers with okStatus.
CallReindex(t, okStatus) == [t EXCEPT !.pc = "rx_delete", !.okStatus = okStatus]

\* After the upload loop: POST / reindexes if there is text or a file,
\* POST /:promptId/files always.
AfterFiles(t) ==
  IF t.op = "create"
  THEN IF t.data # << >> \/ Len(t.files) > 0 THEN CallReindex(t, 201)
       ELSE Done(t, 201)
  ELSE CallReindex(t, 201)

\* The file loop of POST / and POST /:promptId/files
FileLoopStep(w, t) ==
  LET file == t.files[t.i]
      path == generateFilePath(t.dom, t.pid, file.originalname)
  IN CASE t.pc = "put" ->
            Out(PutBlob(w, path, file.buffer), [t EXCEPT !.pc = "fileins"])
       [] t.pc = "fileins" ->
            \* prompt_files.prompt_id REFERENCES prompts(id)
            IF PromptById(w, t.pid) = {} THEN Out(w, Done(t, 500))
            ELSE LET row == [id |-> w.nextFileId, promptId |-> t.pid,
                             domainId |-> t.dom, filename |-> file.originalname,
                             mimeType |-> IF file.mimetype # NoMime THEN file.mimetype
                                          ELSE detectMimeType(file.originalname),
                             nextcloudPath |-> path]
                     w2 == [w EXCEPT !.promptFiles = @ \cup {row},
                                     !.nextFileId = @ + 1]
                 IN IF t.i < Len(t.files)
                    THEN Out(w2, [t EXCEPT !.i = @ + 1, !.pc = "put"])
                    ELSE Out(w2, AfterFiles(t))

\* promptsRouter.post('/'): create prompt, upload files, reindex
CreateStep(w, t) ==
  IF t.pc = "start"
  THEN IF ~t.bodyOk THEN Out(w, Done(t, 400))
       ELSE LET row == [id |-> w.nextPromptId, domainId |-> t.dom, prompt |-> t.data]
                w2 == [w EXCEPT !.prompts = @ \cup {row}, !.nextPromptId = @ + 1]
                t2 == [t EXCEPT !.pid = row.id, !.i = 1]
            IN IF Len(t.files) > 0 THEN Out(w2, [t2 EXCEPT !.pc = "put"])
               ELSE Out(w2, AfterFiles(t2))
  ELSE FileLoopStep(w, t)

\* promptsRouter.patch('/:id')
UpdateStep(w, t) ==
  CASE t.pc = "start" ->
         IF ~t.bodyOk THEN Out(w, Done(t, 400))
         ELSE IF PromptOwned(w, t.pid, t.dom) = {} THEN Out(w, Done(t, 404))
              ELSE Out(w, [t EXCEPT !.pc = "update"])
    [] t.pc = "update" ->
         LET w2 == [w EXCEPT !.prompts =
                      {IF p.id = t.pid /\ t.data # << >>
                       THEN [p EXCEPT !.prompt = t.data] ELSE p : p \in @}]
         IN IF t.data # << >> THEN Out(w2, CallReindex(t, 200))
            ELSE Out(w2, Done(t, 200))

\* promptsRouter.delete('/:id')
DeleteStep(w, t) ==
  CASE t.pc = "start" ->
         IF PromptOwned(w, t.pid, t.dom) = {} THEN Out(w, Done(t, 404))
         ELSE Out(w, [t EXCEPT !.pc = "delete"])
    [] t.pc = "delete" -> Out(DeletePromptCascade(w, t.pid), Done(t, 204))

\* promptsRouter.get('/:id')
GetStep(w, t) ==
  IF PromptOwned(w, t.pid, t.dom) = {} THEN Out(w, Done(t, 404))
  ELSE Out(w, Done(t, 200))

\* The source tag of a context chunk: chunkId.startsWith('file_')
ContextSource(chunkId) == IF chunkId[1] = "file" THEN "file" ELSE "prompt"

\* The contextChunks built from a search result
ContextChunks(searchResults) ==
  [k \in 1..Len(searchResults) |->
     [chunkId |-> searchResults[k].chunkId, text |-> searchResults[k].text,
      similarityScore |-> searchResults[k].similarityScore,
      source |-> ContextSource(searchResults[k].chunkId)]]

\* The retrieval were it to search whatever the request asks
RetrieveContextAlways(w, t) ==
  { [Called(t, "similaritySearch") EXCEPT !.results = ContextChunks(r)]
    : r \in UNION { similaritySearch(w, t.dom, qv, t.topK, t.minSimilarity, t.pid)
                    : qv \in generateQueryEmbedding(w.useMock, t.query) } }

\* ApplyService.applyPrompt, "Retrieve context if requested": the task
\* with its contextChunks in results.
RetrieveContext(w, t) ==
  IF t.includeContext
  THEN { [Called(t, "similaritySearch") EXCEPT !.results = ContextChunks(r)]
         : r \in UNION { similaritySearch(w, t.dom, qv, t.topK, t.minSimilarity, t.pid)
                         : qv \in generateQueryEmbedding(w.useMock, t.query) } }
  ELSE { t }

\* The generative call were a failed call to be tried once more
GenerateResponseRetried(t) ==
  LET once == Called(t, "generateResponse")
      twice == Called(once, "generateResponse")
  IN {Done(once, 200), Done(twice, 200), Done(twice, 500)}

\* ApplyService.applyPrompt, llmService.generateResponse: the call answers,
\* or throws and the request ends 500.
GenerateResponse(t) ==
  LET once == Called(t, "generateResponse")
  IN {Done(once, 200), Done(once, 500)}

\* promptsRouter.post('/:id/apply') with ApplyService.applyPrompt: the
\* search for context, then the generative call, which answers or fails.
ApplyStep(w, t) ==
  CASE t.pc = "start" ->
         IF ~t.bodyOk THEN Out(w, Done(t, 400))
         ELSE LET found == PromptOwned(w, t.pid, t.dom)
              IN IF found = {} THEN Out(w, Done(t, 404))
                 ELSE IF (CHOOSE p \in found : TRUE).prompt = << >>
                      THEN Out(w, Done(t, 400))
                      ELSE Out(w, [t EXCEPT !.pc = "context"])
    [] t.pc = "context" ->
         { [w |-> w, t |-> [c EXCEPT !.pc = "llm"]] : c \in RetrieveContext(w, t) }
    [] t.pc = "llm" -> { [w |-> w, t |-> r] : r \in GenerateResponse(t) }

\* filesRouter.post('/:promptId/files')
UploadStep(w, t) ==
  IF t.pc = "start"
  THEN IF Len(t.files) = 0 THEN Out(w, Done(t, 400))
       ELSE IF PromptOwned(w, t.pid, t.dom) = {} THEN Out(w, Done(t, 404))
            ELSE Out(w, [t EXCEPT !.i = 1, !.pc = "put"])
  ELSE FileLoopStep(w, t)

\* filesRouter.get('/:promptId/files')
ListFilesStep(w, t) ==
  CASE t.pc = "start" ->
         IF PromptOwned(w, t.pid, t.dom) = {} THEN Out(w, Done(t, 404))
         ELSE Out(w, [t EXCEPT !.pc = "list"])
    [] t.pc = "list" ->
         Out(w, [Done(t, 200) EXCEPT !.count = Cardinality(FilesOf(w, t.pid))])

\* The file row the file routes select: id, prompt and tenant must match.
FileOwned(w, fid, pid, dom) ==
  {f \in w.promptFiles : f.id = fid /\ f.promptId = pid /\ f.domainId = dom}

\* filesRouter.get('/:promptId/files/:fileId/download')
DownloadStep(w, t) ==
  CASE t.pc = "start" ->
         IF FileOwned(w, t.fid, t.pid, t.dom) = {} THEN Out(w, Done(t, 404))
         ELSE Out(w, [t EXCEPT
                !.rfiles = << CHOOSE f \in FileOwned(w, t.fid, t.pid, t.dom) : TRUE >>,
                !.pc = "fetch"])
    [] t.pc = "fetch" ->
         IF BlobAt(w, t.rfiles[1].nextcloudPath) = {} THEN Out(w, Done(t, 500))
         ELSE Out(w, Done(t, 200))

\* filesRouter.delete('/:promptId/files/:fileId')
DeleteFileStep(w, t) ==
  CASE t.pc = "start" ->
         IF FileOwned(w, t.fid, t.pid, t.dom) = {} THEN Out(w, Done(t, 404))
         ELSE Out(w, [t EXCEPT
                !.rfiles = << CHOOSE f \in FileOwned(w, t.fid, t.pid, t.dom) : TRUE >>,
                !.pc = "unlink"])
    [] t.pc = "unlink" ->
         Out(DeleteBlob(w, t.rfiles[1].nextcloudPath), [t EXCEPT !.pc = "delrow"])
    [] t.pc = "delrow" ->
         Out([w EXCEPT !.promptFiles = {f \in @ : f.id # t.fid}],
             CallReindex([t EXCEPT !.rfiles = << >>], 204))

\* searchRouter.post('/'), post('/related'), get('/stats'), by a search
\* service configured with useMock = t.mock
SearchStep(w, t) ==
  CASE t.op = "search" ->
         { [w |-> w, t |-> [Done(t, 200) EXCEPT !.results = r]]
           : r \in UNION { similaritySearch(w, t.dom, qv, t.topK, t.minSimilarity, t.scope)
                           : qv \in generateQueryEmbedding(t.mock, t.query) } }
    [] t.op = "related" ->
         { [w |-> w, t |-> [Done(t, 200) EXCEPT !.results = r]]
           : r \in UNION { findRelatedPrompts(w, t.dom, qv, t.topK, t.minSimilarity)
                           : qv \in generateQueryEmbedding(t.mock, t.query) } }
    [] t.op = "stats" ->
         Out(w, [Done(t, 200) EXCEPT !.results = << getEmbeddingStats(w, t.dom) >>])

ReindexPcs == {"rx_delete", "rx_load", "rx_files", "rx_file", "rx_save", "rx_insert"}

\* The x-domain-id header of a request: "" when the header is missing,
\* " " a header of blanks.
MissingDomains == {"", " "}

\* validateDomainId were it to reject the missing header only
validateDomainIdPresent(dom) == dom # ""

\* validateDomainId: TRUE when the request goes on to its handler, FALSE
\* when it is rejected with 400.
validateDomainId(dom) == dom # "" /\ dom \notin MissingDomains

\* The routes registered before any router.use(validateDomainId):
\* GET /health and GET /api/prompts/models
PublicOps == {"health", "models"}

\* One step of a request: the local code up to and including its next
\* database, storage or provider call.  A set: the outcomes that call has.
Steps(w, t) ==
  IF t.pc \in ReindexPcs THEN ReindexStep(w, t)
  ELSE IF /\ t.pc = "start" /\ t.op \notin PublicOps \cup {"reindex"}
          /\ ~validateDomainId(t.dom)
  THEN Out(w, Done(t, 400))
  ELSE CASE t.op = "create" -> CreateStep(w, t)
         [] t.op = "update" -> UpdateStep(w, t)
         [] t.op = "delete" -> DeleteStep(w, t)
         [] t.op = "get" -> GetStep(w, t)
         [] t.op = "apply" -> ApplyStep(w, t)
         [] t.op = "upload" -> UploadStep(w, t)
         [] t.op = "listFiles" -> ListFilesStep(w, t)
         [] t.op = "download" -> DownloadStep(w, t)
         [] t.op = "deleteFile" -> DeleteFileStep(w, t)
         [] t.op = "reindex" -> ReindexStep(w, [t EXCEPT !.pc = "rx_delete", !.okStatus = 200])
         [] t.op \in {"search", "related", "stats"} -> SearchStep(w, t)
         [] t.op = "models" -> Out(w, Done(t, 200))
         [] t.op = "health" -> Out(w, Done(t, 200)) \cup Out(w, Done(t, 503))

RECURSIVE Run(_, _)
\* A request run to completion with no other request in between.
Run(w, t) ==
  IF t.pc = "done" THEN Out(w, t)
  ELSE UNION { Run(s.w, s.t) : s \in Steps(w, t) }

\* ---------------------------------------------------------------- requests

PromptIds == 1..MaxPrompts
FileIds == 1..MaxFiles

\* The file lists a multipart request may carry
FileLists ==
  { << >>, << UploadTxt >>, << UploadBin >>, << UploadTxtAgain >>,
    << UploadTxt, UploadBin >> }

\* A query text, and the retrieval parameters of an apply request
QueryText == <<"a", "b">>
ApplyTopK == 2
ApplyMinSimilarity == 10
ApplyHighSimilarity == 50

Success(status) == status \in {200, 201, 204}

\* What is kept of a completed request: the request and its response.
Normalise(t) ==
  [t EXCEPT !.chunks = << >>, !.rfiles = << >>, !.vectors = << >>,
            !.i = 0, !.okStatus = 0, !.calls = << >>,
            !.results = IF t.op \in {"search", "related", "stats"} THEN @ ELSE << >>]

CreateRequests ==
  { [NewTask("create", dom, 0) EXCEPT !.data = data, !.files = files,
                                      !.bodyOk = (data # << >>)]
    : dom \in Domains, data \in PromptTexts \cup {<< >>}, files \in FileLists }

UpdateRequests ==
  { [NewTask("update", dom, pid) EXCEPT !.data = body.data, !.bodyOk = body.ok]
    : dom \in Domains, pid \in PromptIds,
      body \in {[ok |-> TRUE, data |-> d] : d \in PromptTexts \cup {<< >>}}
                 \cup {[ok |-> FALSE, data |-> << >>]} }

PromptRequests(op) == { NewTask(op, dom, pid) : dom \in Domains, pid \in PromptIds }

ApplyRequests ==
  { [NewTask("apply", dom, pid) EXCEPT !.bodyOk = ok, !.query = QueryText,
                                       !.topK = k, !.minSimilarity = m,
                                       !.includeContext = ctx]
    : dom \in Domains, pid \in PromptIds, ok \in BOOLEAN,
      k \in {1, ApplyTopK}, m \in {ApplyMinSimilarity, ApplyHighSimilarity},
      ctx \in BOOLEAN }

UploadRequests ==
  { [NewTask("upload", dom, pid) EXCEPT !.files = files]
    : dom \in Domains, pid \in PromptIds, files \in FileLists }

FileRequests(op) ==
  { [NewTask(op, dom, pid) EXCEPT !.fid = fid]
    : dom \in Domains, pid \in PromptIds, fid \in FileIds }

\* The retrieval parameters of a search request
TopKs == {1, 2}
MinSimilarities == {0, 50}
SearchPromptIds == 1..MaxSearchPrompts

SearchRequests ==
  { [NewTask("search", dom, 0) EXCEPT !.query = QueryText, !.topK = k,
                                      !.minSimilarity = m, !.scope = sc, !.mock = mk]
    : dom \in Domains, k \in TopKs, m \in MinSimilarities,
      sc \in {0} \cup SearchPromptIds, mk \in BOOLEAN }

RelatedRequests ==
  { [NewTask("related", dom, 0) EXCEPT !.query = QueryText, !.topK = k,
                                       !.minSimilarity = m, !.mock = mk]
    : dom \in Domains, k \in TopKs, m \in MinSimilarities, mk \in BOOLEAN }

StatsRequests == { NewTask("stats", dom, 0) : dom \in Domains }

\* POST /api/prompts/:promptId/files with one zero-byte file
EmptyUploadRequests ==
  { [NewTask("upload", dom, pid) EXCEPT !.files = << UploadEmpty >>]
    : dom \in Domains, pid \in PromptIds }

\* The HTTP requests of a tenant
TenantRequests ==
  CreateRequests \cup UpdateRequests \cup ApplyRequests \cup UploadRequests
    \cup UNION { PromptRequests(op) : op \in {"get", "delete", "listFiles"} }
    \cup UNION { FileRequests(op) : op \in {"download", "deleteFile"} }
    \cup SearchRequests \cup RelatedRequests \cup StatsRequests

\* The same requests sent without a usable x-domain-id header
HeaderlessRequests ==
  { [t EXCEPT !.dom = d] : t \in TenantRequests, d \in MissingDomains }

\* GET /health and GET /api/prompts/models, with or without the header
PublicRequests ==
  { NewTask(op, dom, 0) : op \in PublicOps, dom \in Domains \cup MissingDomains }

\* ------------------------------------------- requests served one at a time

Init ==
  /\ prompts = {} /\ promptFiles = {} /\ embeddings = {} /\ blobs = {}
  /\ nextPromptId = 1 /\ nextFileId = 1
  /\ useMock \in BOOLEAN
  /\ tasks = [s \in 1..MaxTasks |-> NoTask]
  /\ begun = 0
  /\ resp = NoTask

\* The tables and the blob store after a request's step
Store(w) ==
  /\ prompts' = w.prompts /\ promptFiles' = w.promptFiles
  /\ embeddings' = w.embeddings /\ blobs' = w.blobs
  /\ nextPromptId' = w.nextPromptId /\ nextFileId' = w.nextFileId
  /\ useMock' = useMock

\* The outcomes of a request served from its first statement to its
\* response with no other request running
Outcomes(t) == Run(World({}), t)

\* resp keeps the last request that changed the store
Changed(o) == resp' = IF o.w = World({}) THEN resp ELSE Normalise(o.t)

\* The ids a request may still draw
RoomFor(nPrompts, maxPrompts, nFiles) ==
  /\ nextPromptId + nPrompts <= maxPrompts + 1
  /\ nextFileId + nFiles <= MaxFiles + 1

\* POST /api/prompts
CreatePrompt ==
  \E t \in CreateRequests :
    /\ t.bodyOk => RoomFor(1, MaxPrompts, Len(t.files))
    /\ \E o \in Outcomes(t) : Store(o.w) /\ Changed(o)
    /\ UNCHANGED << tasks, begun >>

\* PATCH /api/prompts/:id
UpdatePrompt ==
  \E t \in UpdateRequests :
    /\ \E o \in Outcomes(t) : Store(o.w) /\ Changed(o)
    /\ UNCHANGED << tasks, begun >>

\* DELETE /api/prompts/:id
DeletePrompt ==
  \E t \in PromptRequests("delete") :
    /\ \E o \in Outcomes(t) : Store(o.w) /\ Changed(o)
    /\ UNCHANGED << tasks, begun >>

\* GET /api/prompts/:id
GetPrompt ==
  \E t \in PromptRequests("get") :
    /\ \E o \in Outcomes(t) : Store(o.w) /\ Changed(o)
    /\ UNCHANGED << tasks, begun >>

\* POST /api/prompts/:id/apply
ApplyPrompt ==
  \E t \in ApplyRequests :
    /\ \E o \in Outcomes(t) : Store(o.w) /\ Changed(o)
    /\ UNCHANGED << tasks, begun >>

\* POST /api/prompts/:promptId/files
UploadFiles ==
  \E t \in UploadRequests :
    /\ RoomFor(0, MaxPrompts, Len(t.files))
    /\ \E o \in Outcomes(t) : Store(o.w) /\ Changed(o)
    /\ UNCHANGED << tasks, begun >>

\* GET /api/prompts/:promptId/files
ListFiles ==
  \E t \in PromptRequests("listFiles") :
    /\ \E o \in Outcomes(t) : Store(o.w) /\ Changed(o)
    /\ UNCHANGED << tasks, begun >>

\* GET /api/prompts/:promptId/files/:fileId/download
DownloadFile ==
  \E t \in FileRequests("download") :
    /\ \E o \in Outcomes(t) : Store(o.w) /\ Changed(o)
    /\ UNCHANGED << tasks, begun >>

\* DELETE /api/prompts/:promptId/files/:fileId
DeleteFile ==
  \E t \in FileRequests("deleteFile") :
    /\ \E o \in Outcomes(t) : Store(o.w) /\ Changed(o)
    /\ UNCHANGED << tasks, begun >>

\* embeddingService.reindexPrompt(domainId, promptId) called directly, as
\* the service's test script does, with any tenant id and prompt id
Reindex ==
  \E t \in PromptRequests("reindex") :
    /\ \E o \in Outcomes(t) : Store(o.w) /\ Changed(o)
    /\ UNCHANGED << tasks, begun >>

\* Any tenant route requested without a usable x-domain-id header
MissingDomain ==
  \E t \in HeaderlessRequests :
    /\ \E o \in Outcomes(t) : Store(o.w) /\ Changed(o)
    /\ UNCHANGED << tasks, begun >>

\* GET /health, GET /api/prompts/models
PublicRoute ==
  \E t \in PublicRequests :
    /\ \E o \in Outcomes(t) : Store(o.w) /\ Changed(o)
    /\ UNCHANGED << tasks, begun >>

Next ==
  \/ MissingDomain
  \/ PublicRoute
  \/ CreatePrompt
  \/ UpdatePrompt
  \/ DeletePrompt
  \/ GetPrompt
  \/ ApplyPrompt
  \/ UploadFiles
  \/ ListFiles
  \/ DownloadFile
  \/ DeleteFile
  \/ Reindex

Spec == Init /\ [][Next]_vars

\* ----------------------------------------------- the search specification

\* resp keeps the last request, with its response
Answered(o) == resp' = Normalise(o.t)

\* POST /api/prompts with a text and no files
CreateTextPrompt ==
  \E t \in {r \in CreateRequests : r.bodyOk /\ r.files = << >>} :
    /\ RoomFor(1, MaxSearchPrompts, 0)
    /\ \E o \in Outcomes(t) : Store(o.w) /\ Answered(o)
    /\ UNCHANGED << tasks, begun >>

\* POST /api/search
Search ==
  \E t \in SearchRequests :
    /\ \E o \in Outcomes(t) : Store(o.w) /\ Answered(o)
    /\ UNCHANGED << tasks, begun >>

\* POST /api/search/related
Related ==
  \E t \in RelatedRequests :
    /\ \E o \in Outcomes(t) : Store(o.w) /\ Answered(o)
    /\ UNCHANGED << tasks, begun >>

\* GET /api/search/stats
Stats ==
  \E t \in StatsRequests :
    /\ \E o \in Outcomes(t) : Store(o.w) /\ Answered(o)
    /\ UNCHANGED << tasks, begun >>

SearchNext ==
  \/ CreateTextPrompt
  \/ Search
  \/ Related
  \/ Stats

SearchSpec == Init /\ [][SearchNext]_vars

\* The search specification with requests that keep arriving
FairSearchSpec == SearchSpec /\ WF_vars(SearchNext)

\* ------------------------------------------ requests running concurrently

\* The requests of the concurrent specification: one tenant's writes
ConcRequests ==
  {r \in ({x \in CreateRequests : x.data = TextOne /\ x.files = << >>}
           \cup {x \in UpdateRequests : x.data # << >>}
           \cup PromptRequests("delete")
           \cup {x \in UploadRequests : x.files = << UploadTxt >>}
           \cup FileRequests("deleteFile")
           \cup PromptRequests("reindex")) : r.dom = "A"}

Running(s) == tasks[s].op # "none"

RECURSIVE SumOver(_, _)
SumOver(f, S) ==
  IF S = {} THEN 0
  ELSE LET x == CHOOSE y \in S : TRUE IN f[x] + SumOver(f, S \ {x})

\* Prompt and file ids the running requests will still draw
PendingPrompts ==
  Cardinality({s \in 1..MaxTasks : tasks[s].op = "create" /\ tasks[s].pc = "start"})
PendingFiles ==
  SumOver([s \in 1..MaxTasks |->
             IF tasks[s].op \in {"create", "upload"}
                  /\ tasks[s].pc \in {"start", "put", "fileins"}
             THEN Len(tasks[s].files) - Max2(tasks[s].i - 1, 0) ELSE 0],
          1..MaxTasks)

\* The embedding ids the other running reindexes saw before their delete
ReservedFor(s) ==
  UNION { {e.id : e \in tasks[x].pre} : x \in (1..MaxTasks) \ {s} }

\* A request arrives: its handler starts in a free slot.
Begin(s) ==
  /\ ~Running(s)
  /\ \A x \in 1..(s - 1) : Running(x)
  /\ begun < MaxRequests
  /\ begun' = begun + 1
  /\ \E t \in ConcRequests :
       /\ RoomFor(PendingPrompts + (IF t.op = "create" THEN 1 ELSE 0), MaxPrompts,
                  PendingFiles + Len(t.files))
       /\ tasks' = [tasks EXCEPT ![s] = t]
  /\ UNCHANGED << prompts, promptFiles, embeddings, blobs, nextPromptId,
                  nextFileId, useMock, resp >>

\* A running handler runs to its next await; with its response the
\* request leaves its slot.
Advance(s) ==
  /\ Running(s)
  /\ \E o \in Steps(World(ReservedFor(s)), tasks[s]) :
       /\ Store(o.w)
       /\ tasks' = [tasks EXCEPT ![s] = IF o.t.pc = "done" THEN NoTask ELSE o.t]
       /\ UNCHANGED << begun, resp >>

ConcNext == \E s \in 1..MaxTasks : Begin(s) \/ Advance(s)

ConcSpec == Init /\ [][ConcNext]_vars

\* ------------------------------------------- the OpenAI embeddings service

\* What client.embeddings.create may do: reject (error), or resolve with
\* data, a list of embeddings of any length and dimension.
ProviderResponses ==
  { [error |-> e, data |-> d]
    : e \in BOOLEAN,
      d \in UNION { [1..m -> {[k \in 1..n |-> 1] : n \in 0..(Dimensions + 1)}]
                    : m \in 0..MaxBatch } }

\* OpenAIEmbeddingsService.generateEmbedding, given the API's answer:
\* [ok, value]; ok = FALSE is a throw.
OpenAIGenerateEmbedding(response) ==
  IF response.error THEN [ok |-> FALSE, value |-> << >>]
  ELSE IF Len(response.data) = 0 THEN [ok |-> FALSE, value |-> << >>]
       ELSE [ok |-> TRUE, value |-> response.data[1]]

\* OpenAIEmbeddingsService.generateEmbeddings, given the API's answer
OpenAIGenerateEmbeddings(response) ==
  IF response.error THEN [ok |-> FALSE, value |-> << >>]
  ELSE [ok |-> TRUE, value |-> response.data]

\* The call as a request with its response: the API's answer in results,
\* the returned value in vectors, status 500 for a throw.
ProviderCall(op, response, r) ==
  [NoTask EXCEPT !.op = op, !.results = << response >>,
                 !.status = IF r.ok THEN 200 ELSE 500,
                 !.vectors = r.value]

\* generateEmbedding(text), the API answering with any response
GenerateEmbedding ==
  \E response \in ProviderResponses :
    /\ resp' = ProviderCall("generateEmbedding", response,
                            OpenAIGenerateEmbedding(response))
    /\ UNCHANGED << prompts, promptFiles, embeddings, blobs, nextPromptId,
                    nextFileId, useMock, tasks, begun >>

\* generateEmbeddings(texts), the API answering with any response
GenerateEmbeddings ==
  \E response \in ProviderResponses :
    /\ resp' = ProviderCall("generateEmbeddings", response,
                            OpenAIGenerateEmbeddings(response))
    /\ UNCHANGED << prompts, promptFiles, embeddings, blobs, nextPromptId,
                    nextFileId, useMock, tasks, begun >>

ProviderNext ==
  \/ GenerateEmbedding
  \/ GenerateEmbeddings

ProviderSpec == Init /\ [][ProviderNext]_vars

\* ------------------------------------------------------- the text chunker

\* The texts drawn for the chunker: letters and the separator " "
ChunkerTexts == UNION { [1..n -> {"a", " "}] : n \in 0..MaxTextLen }

\* new TextChunker({chunkSize, chunkOverlap}).splitText(text): the call as
\* a request with its response, the options in results, the chunks in chunks
SplitTextCall ==
  \E text \in ChunkerTexts, size \in 1..ChunkSize, overlap \in 0..ChunkOverlap :
    /\ resp' = [NoTask EXCEPT !.op = "splitText", !.data = text,
                              !.results = << [chunkSize |-> size,
                                              chunkOverlap |-> overlap] >>,
                              !.chunks = splitText(text, size, overlap)]
    /\ UNCHANGED << prompts, promptFiles, embeddings, blobs, nextPromptId,
                    nextFileId, useMock, tasks, begun >>

ChunkerSpec == Init /\ [][SplitTextCall]_vars

\* ------------------------------------------------ the apply specification

\* Well-formed apply requests for any of the prompts
ContextRequests ==
  { [t EXCEPT !.pid = pid] : t \in {r \in ApplyRequests : r.bodyOk},
                             pid \in SearchPromptIds }

\* POST /api/prompts/:promptId/files with one text file
UploadTextFile ==
  \E dom \in Domains, pid \in SearchPromptIds :
    /\ RoomFor(0, MaxSearchPrompts, 1)
    /\ \E o \in Outcomes([NewTask("upload", dom, pid) EXCEPT !.files = << UploadTxtAgain >>]) :
         Store(o.w) /\ Answered(o)
    /\ UNCHANGED << tasks, begun >>

\* POST /api/prompts/:id/apply
ApplyWithContext ==
  \E t \in ContextRequests :
    /\ \E o \in Outcomes(t) : Store(o.w) /\ Answered(o)
    /\ UNCHANGED << tasks, begun >>

ApplyNext ==
  \/ CreateTextPrompt
  \/ UploadTextFile
  \/ ApplyWithContext

ApplySpec == Init /\ [][ApplyNext]_vars

\* ------------------------------------- reindexing started in the background

\* embeddingService.reindexPrompt(domainId, id) as the start of a promise the
\* handler does not await
BackgroundReindex(t) ==
  [NewTask("reindex", t.dom, t.pid) EXCEPT !.pc = "rx_delete", !.okStatus = 200]

\* The handler's status were it to await the reindex before it answers
AwaitedStatus(w, t, okStatus) ==
  LET o == CHOOSE x \in Run(w, BackgroundReindex(t)) : TRUE
  IN IF o.t.status = 200 THEN okStatus ELSE 500

\* The status of res.status(201).json(newPrompt) and res.json(updated): the
\* reindex promise is left to its .catch
FireAndForgetStatus(w, t, okStatus) == okStatus

\* A slot that holds no promise, or a settled one
Settled(s) == tasks[s].pc = "done"

\* POST /api/prompts, reindex fire and forget
CreateInBackground ==
  \E t \in {r \in CreateRequests : r.files = << >>}, s \in 1..MaxTasks :
    /\ Settled(s)
    /\ begun < MaxRequests
    /\ begun' = begun + 1
    /\ IF ~t.bodyOk
       THEN /\ resp' = Done(t, 400)
            /\ UNCHANGED << prompts, nextPromptId, tasks >>
       ELSE LET row == [id |-> nextPromptId, domainId |-> t.dom, prompt |-> t.data]
                t2 == [t EXCEPT !.pid = row.id]
                w2 == [World({}) EXCEPT !.prompts = @ \cup {row}]
            IN /\ RoomFor(1, MaxPrompts, 0)
               /\ prompts' = w2.prompts
               /\ nextPromptId' = nextPromptId + 1
               /\ tasks' = [tasks EXCEPT ![s] = BackgroundReindex(t2)]
               /\ resp' = [Done(t2, FireAndForgetStatus(w2, t2, 201))
                             EXCEPT !.results = << row >>]
    /\ UNCHANGED << promptFiles, embeddings, blobs, nextFileId, useMock >>

\* PATCH /api/prompts/:id, reindex fire and forget; count holds the number
\* of rows the handler's select found.
UpdateInBackground ==
  \E t \in UpdateRequests, s \in 1..MaxTasks :
    /\ Settled(s)
    /\ begun < MaxRequests
    /\ begun' = begun + 1
    /\ LET found == PromptOwned(World({}), t.pid, t.dom)
           t2 == [t EXCEPT !.count = Cardinality(found)]
       IN IF ~t.bodyOk \/ found = {}
          THEN /\ resp' = Done(t2, IF ~t.bodyOk THEN 400 ELSE 404)
               /\ UNCHANGED << prompts, tasks >>
          ELSE LET updated == {IF p.id = t.pid /\ t.data # << >>
                               THEN [p EXCEPT !.prompt = t.data] ELSE p : p \in prompts}
                   w2 == [World({}) EXCEPT !.prompts = updated]
               IN /\ prompts' = updated
                  /\ tasks' = IF t.data # << >>
                              THEN [tasks EXCEPT ![s] = BackgroundReindex(t2)]
                              ELSE tasks
                  /\ resp' = [Done(t2, IF t.data # << >>
                                       THEN FireAndForgetStatus(w2, t2, 200) ELSE 200)
                                EXCEPT !.results = << CHOOSE p \in updated : p.id = t.pid >>]
    /\ UNCHANGED << promptFiles, embeddings, blobs, nextPromptId, nextFileId, useMock >>

\* The background reindex runs to its next await; a rejection (status 500)
\* goes to the promise's .catch, which logs it.
BackgroundStep ==
  \E s \in 1..MaxTasks :
    /\ ~Settled(s)
    /\ \E o \in Steps(World(ReservedFor(s)), tasks[s]) :
         /\ Store(o.w)
         /\ tasks' = [tasks EXCEPT ![s] = o.t]
    /\ UNCHANGED << begun, resp >>

BackgroundNext ==
  \/ CreateInBackground
  \/ UpdateInBackground
  \/ BackgroundStep

BackgroundSpec == Init /\ [][BackgroundNext]_vars

\* ------------------------------------------- MIME detection and extraction

\* Filenames over a dot, letters of the table's extensions and an upper-case
\* letter
Filenames == UNION { [1..n -> {".", "t", "x", "T"}] : n \in 0..MaxNameLen }

\* ContentExtractor.detectMimeType(filename), then extractText of a file's
\* content with the detected type
DetectAndExtract ==
  \E filename \in Filenames :
    /\ resp' = [NoTask EXCEPT
                  !.op = "detectMimeType", !.data = filename,
                  !.results = << detectMimeType(filename),
                                 extractText(<<"a">>, detectMimeType(filename)) >>]
    /\ UNCHANGED << prompts, promptFiles, embeddings, blobs, nextPromptId,
                    nextFileId, useMock, tasks, begun >>

ExtractorSpec == Init /\ [][DetectAndExtract]_vars

\* ------------------------------------------------------------- properties

Current == World({})

Range(seq) == {seq[k] : k \in 1..Len(seq)}

\* A file the reindex can fetch and extract
Processable(w, f) ==
  /\ BlobAt(w, f.nextcloudPath) # {}
  /\ extractText((CHOOSE b \in BlobAt(w, f.nextcloudPath) : TRUE).content, f.mimeType).ok

FileText(w, f) ==
  extractText((CHOOSE b \in BlobAt(w, f.nextcloudPath) : TRUE).content, f.mimeType).text

\* The (chunk id, text) pairs of a prompt's text and of the given files
ExpectedChunks(w, p, files) ==
  {<<c.chunkId, c.text>> : c \in Range(processPromptContent(p.prompt))}
    \cup UNION { {<<c.chunkId, c.text>> : c \in Range(processFileContent(f.id, FileText(w, f)))}
                 : f \in files }

StoredChunks(w, pid) == {<<e.chunkId, e.text>> : e \in EmbeddingsOf(w, pid)}

Content(w, pid) == {<<e.chunkId, e.text, e.vector>> : e \in EmbeddingsOf(w, pid)}

\* The recorded request called reindexPrompt
Reindexing(r) ==
  \/ r.op \in {"create", "upload", "deleteFile", "reindex"}
  \/ r.op = "update" /\ r.data # << >>

\* The recorded request's reindex returned a count
ReindexedOk(r) == Reindexing(r) /\ Success(r.status) /\ r.count >= 0

\* C1: a search, a related-prompts query and the statistics of tenant A
\* read only embedding rows whose tenant id is A, and a search scoped to a
\* prompt returns only rows of that prompt, whatever other tenants stored.
C1_TenantIsolation ==
  /\ resp.op = "search" =>
       \A k \in 1..Len(resp.results) :
         \E e \in embeddings :
           /\ e.id = resp.results[k].embeddingId
           /\ e.promptId = resp.results[k].promptId
           /\ e.domainId = resp.dom
           /\ resp.scope # 0 => e.promptId = resp.scope
  /\ resp.op = "related" =>
       \A k \in 1..Len(resp.results) :
         LET r == resp.results[k]
             own == {e \in embeddings : e.domainId = resp.dom /\ e.promptId = r.promptId}
         IN /\ \E e \in own : e.text = r.bestChunk
            /\ r.chunkCount <= Cardinality(own)
  /\ resp.op = "stats" =>
       LET own == {e \in embeddings : e.domainId = resp.dom}
       IN /\ resp.results[1].totalEmbeddings = Cardinality(own)
          /\ resp.results[1].promptsWithEmbeddings = Cardinality({e.promptId : e \in own})

\* A search over all of a tenant's prompts returned a chunk while another
\* tenant stores a chunk of the same text.
C1_Witness ==
  /\ resp.op = "search" /\ resp.scope = 0 /\ Len(resp.results) >= 1
  /\ \E e \in embeddings : e.domainId # resp.dom /\ e.text = resp.results[1].text

\* C2: reindexPrompt(tenant, promptId) deletes no embedding of another
\* tenant and leaves no embedding whose tenant id differs from the tenant
\* id of the prompt that owns it.
C2_ReindexTenantScoped ==
  \A e \in embeddings :
    \E p \in prompts : p.id = e.promptId /\ p.domainId = e.domainId

\* The HTTP requests that name a prompt or a file
NamingRequests ==
  UpdateRequests \cup PromptRequests("get") \cup PromptRequests("delete")
    \cup ApplyRequests \cup UploadRequests \cup PromptRequests("listFiles")
    \cup FileRequests("download") \cup FileRequests("deleteFile")

\* The request names a prompt, or a file, of another tenant
Foreign(t) ==
  \/ \E p \in prompts : p.id = t.pid /\ p.domainId # t.dom
  \/ /\ t.op \in {"download", "deleteFile"}
     /\ \E f \in promptFiles : f.id = t.fid /\ f.domainId # t.dom

\* The request passes the handler's validation of its body and files
WellFormed(t) == t.bodyOk /\ (t.op = "upload" => Len(t.files) > 0)

\* C3 as stated: every HTTP request naming another tenant's prompt or file
\* is answered 404 and changes nothing.
C3_ForeignAlways404 ==
  \A t \in NamingRequests :
    Foreign(t) => \A o \in Outcomes(t) : o.t.status = 404 /\ o.w = Current

\* C3: an HTTP request naming another tenant's prompt or file changes no
\* prompt, file, blob or embedding; it is answered 404 when its body and
\* files are well-formed, and 400 when they are not.
C3_ForeignRequests ==
  \A t \in NamingRequests :
    Foreign(t) =>
      \A o \in Outcomes(t) :
        /\ o.w = Current
        /\ o.t.status = IF WellFormed(t) THEN 404 ELSE 400

\* Another tenant asks to delete an existing file of an indexed prompt and
\* gets 404.
C3_Witness ==
  \E t \in FileRequests("deleteFile") :
    /\ Foreign(t)
    /\ \E f \in promptFiles : f.id = t.fid /\ f.promptId = t.pid
    /\ EmbeddingsOf(Current, t.pid) # {}
    /\ \A o \in Outcomes(t) : o.t.status = 404

\* C4: a similarity search returns at most topK entries, each with a
\* score of at least minSimilarity, in non-increasing score order.
C4_TopKThresholdOrder ==
  resp.op = "search" =>
    /\ Len(resp.results) <= resp.topK
    /\ \A k \in 1..Len(resp.results) :
         resp.results[k].similarityScore >= resp.minSimilarity
    /\ \A k \in 1..(Len(resp.results) - 1) :
         resp.results[k].similarityScore >= resp.results[k + 1].similarityScore

\* A search returned topK = 2 entries of different scores from a tenant
\* that stores more than two chunks.
C4_Witness ==
  /\ resp.op = "search" /\ resp.topK = 2 /\ Len(resp.results) = 2
  /\ resp.results[1].similarityScore > resp.results[2].similarityScore
  /\ Cardinality({e \in embeddings : e.domainId = resp.dom}) > 2

\* C5: after a successful reindex served alone, the prompt's embeddings
\* are exactly the rows that reindex inserted, and no row the prompt had
\* before is still stored.
C5_FullReplace ==
  ReindexedOk(resp) =>
    /\ EmbeddingsOf(Current, resp.pid) = resp.inserted
    /\ \A old \in resp.pre : \A e \in embeddings : e.id # old.id

\* An update of the text reindexed a prompt that had embeddings.
C5_Witness ==
  /\ ReindexedOk(resp) /\ resp.op = "update"
  /\ resp.pre # {} /\ resp.inserted # {}
  /\ {e.text : e \in resp.pre} # {e.text : e \in resp.inserted}

\* C6: a successful reindex returns the number of rows then stored for
\* the prompt, which is the number of chunks of the prompt's text plus
\* those of each file processed; the rows' chunk ids are prompt_0.. and
\* file_<fileId>_0.., each once.
C6_CountAndChunkIds ==
  ReindexedOk(resp) =>
    /\ PromptById(Current, resp.pid) # {}
    /\ LET p == CHOOSE x \in PromptById(Current, resp.pid) : TRUE
           rows == EmbeddingsOf(Current, resp.pid)
           done == {f \in FilesOf(Current, resp.pid) : f.id \notin resp.failed}
           nPrompt == IF p.prompt = << >> THEN 0 ELSE Len(chunkText(p.prompt))
           nFile == [f \in done |-> Len(chunkText(FileText(Current, f)))]
           ids == {<<"prompt", k>> : k \in 0..(nPrompt - 1)}
                    \cup UNION { {<<"file", f.id, k>> : k \in 0..(nFile[f] - 1)} : f \in done }
       IN /\ resp.count = Cardinality(rows)
          /\ resp.count = nPrompt + SumOver(nFile, done)
          /\ {e.chunkId : e \in rows} = ids
          /\ Cardinality(ids) = Cardinality(rows)

\* A reindex returned 4: two chunks of the text and two of a file.
C6_Witness ==
  /\ ReindexedOk(resp) /\ resp.count = 4
  /\ \E e \in EmbeddingsOf(Current, resp.pid) : e.chunkId[1] = "file" /\ e.chunkId[3] = 1
  /\ \E e \in EmbeddingsOf(Current, resp.pid) : e.chunkId = <<"prompt", 1>>

\* C7: with a working provider, a reindex of a prompt one of whose files
\* cannot be fetched or extracted succeeds, stores the chunks of the text
\* and of the other files, none of the failed file, and returns their
\* number.
C7_FileFailureSkipped ==
  LET bad == {f \in FilesOf(Current, resp.pid) : ~Processable(Current, f)}
  IN (Reindexing(resp) /\ useMock /\ bad # {}) =>
       /\ Success(resp.status)
       /\ PromptById(Current, resp.pid) # {}
       /\ resp.failed = {f.id : f \in bad}
       /\ StoredChunks(Current, resp.pid) =
            ExpectedChunks(Current, CHOOSE x \in PromptById(Current, resp.pid) : TRUE,
                           FilesOf(Current, resp.pid) \ bad)
       /\ \A e \in EmbeddingsOf(Current, resp.pid) :
            e.chunkId[1] = "file" => e.chunkId[2] \notin {f.id : f \in bad}
       /\ resp.count = Cardinality(EmbeddingsOf(Current, resp.pid))

\* A reindex skipped one file and stored the chunks of another.
C7_Witness ==
  /\ Reindexing(resp) /\ Success(resp.status) /\ resp.failed # {}
  /\ \E e \in EmbeddingsOf(Current, resp.pid) : e.chunkId[1] = "file"
  /\ \E e \in EmbeddingsOf(Current, resp.pid) : e.chunkId[1] = "prompt"

\* C8: from any store, a successful reindexPrompt followed at once by the
\* same call succeeds again with the same count and leaves the same
\* (chunk id, text, vector) rows, as many as before.
C8_Idempotent ==
  \A t \in PromptRequests("reindex") :
    \A first \in Outcomes(t) :
      Success(first.t.status) =>
        \A second \in Run(first.w, t) :
          /\ Success(second.t.status)
          /\ second.t.count = first.t.count
          /\ Content(second.w, t.pid) = Content(first.w, t.pid)
          /\ Cardinality(EmbeddingsOf(second.w, t.pid))
               = Cardinality(EmbeddingsOf(first.w, t.pid))

\* A direct reindex replaced rows by rows of the same content, among them
\* a file's.
C8_Witness ==
  /\ resp.op = "reindex" /\ Success(resp.status) /\ resp.count >= 3
  /\ resp.pre # {}
  /\ {<<e.chunkId, e.text, e.vector>> : e \in resp.pre}
       = {<<e.chunkId, e.text, e.vector>> : e \in resp.inserted}
  /\ \E e \in resp.inserted : e.chunkId[1] = "file"

\* C9: with a working provider and requests served one at a time, the
\* embeddings of each prompt whose files can all be processed are exactly
\* the chunks of its current text and of its current files.
C9_EmbeddingsMatchContent ==
  useMock =>
    \A p \in prompts :
      (\A f \in FilesOf(Current, p.id) : Processable(Current, f)) =>
        /\ StoredChunks(Current, p.id) = ExpectedChunks(Current, p, FilesOf(Current, p.id))
        /\ Cardinality(EmbeddingsOf(Current, p.id))
             = Cardinality(ExpectedChunks(Current, p, FilesOf(Current, p.id)))

\* A file was deleted from a prompt that keeps another, processable file.
C9_Witness ==
  /\ useMock /\ resp.op = "deleteFile" /\ Success(resp.status)
  /\ FilesOf(Current, resp.pid) # {}
  /\ \A f \in FilesOf(Current, resp.pid) : Processable(Current, f)
  /\ \E e \in EmbeddingsOf(Current, resp.pid) : e.chunkId[1] = "file"

\* C10: no file row and no embedding row refers to a prompt that does not
\* exist, also when a prompt is deleted while a reindex of it is running.
C10_NoOrphans ==
  /\ \A f \in promptFiles : PromptById(Current, f.promptId) # {}
  /\ \A e \in embeddings : PromptById(Current, e.promptId) # {}

\* A running reindex is about to insert rows for a prompt deleted meanwhile.
C10_Witness ==
  \E s \in 1..MaxTasks :
    /\ tasks[s].pc = "rx_insert"
    /\ PromptById(Current, tasks[s].pid) = {}

\* C11: reindexPrompt of a prompt id that names no prompt ends in an
\* error after exactly two calls, the delete of the id's embeddings and
\* then the select of the prompt: it returns no count, fetches no blob,
\* asks the provider for nothing and stores no embedding.
C11_MissingPromptFails ==
  \A t \in PromptRequests("reindex") :
    PromptById(Current, t.pid) = {} =>
      \A o \in Outcomes(t) :
        /\ ~Success(o.t.status) /\ o.t.count = -1
        /\ o.t.calls = << "deleteEmbeddings", "selectPrompt" >>
        /\ o.w.embeddings = embeddings /\ o.t.inserted = {}

\* A prompt was indexed and then deleted: its id names no prompt, while
\* other rows may be stored.
C11_Witness ==
  /\ resp.op = "delete" /\ Success(resp.status)
  /\ PromptById(Current, resp.pid) = {}
  /\ \E t \in PromptRequests("reindex") :
       t.pid = resp.pid /\ \A o \in Outcomes(t) : o.t.status = 500

\* What a provider may answer for a batch of n texts: at most n vectors,
\* each of any dimension from 0 to one more than the configured one.
VectorOfDimension(d) == [k \in 1..d |-> 1]
ProviderBatches(n) ==
  UNION { [1..m -> {VectorOfDimension(d) : d \in 0..(Dimensions + 1)}] : m \in 0..n }

\* saveEmbeddings(domainId, promptId, chunks) of a stored prompt's text, at
\* the point where generateEmbeddings has answered with the given vectors
SaveCalls ==
  UNION { { [NewTask("reindex", p.domainId, p.id) EXCEPT
               !.pc = "rx_insert", !.okStatus = 200,
               !.chunks = processPromptContent(p.prompt), !.vectors = v]
            : v \in ProviderBatches(Len(processPromptContent(p.prompt))) }
          : p \in prompts }

\* C12: every stored embedding's vector has the configured dimension, and
\* saveEmbeddings stores none of another dimension whatever vectors the
\* provider answered with, a batch shorter than the texts included.
C12_VectorDimension ==
  /\ \A e \in embeddings : Len(e.vector) = Dimensions
  /\ \A t \in SaveCalls :
       \A o \in Run(Current, t) :
         \A e \in o.w.embeddings : Len(e.vector) = Dimensions

\* Embeddings are stored, and a save whose provider answered with fewer
\* vectors than texts fails and stores nothing.
C12_Witness ==
  /\ embeddings # {}
  /\ \E t \in SaveCalls :
       /\ Len(t.chunks) = 2 /\ Len(t.vectors) = 1
       /\ Len(t.vectors[1]) = Dimensions
       /\ \A o \in Run(Current, t) : o.t.status = 500 /\ o.w = Current

\* The requests whose handler may call reindexPrompt, and the direct call
ReindexingRequests ==
  CreateRequests \cup UpdateRequests \cup UploadRequests
    \cup FileRequests("deleteFile") \cup PromptRequests("reindex")

\* C13: when the embedding provider fails during a reindex, the reindex
\* returns no count and inserts nothing, and the request that awaited it
\* is not answered with a success status.
C13_ProviderFailurePropagates ==
  ~useMock =>
    \A t \in ReindexingRequests :
      \A o \in Outcomes(t) :
        (\E k \in 1..Len(o.t.calls) : o.t.calls[k] = "generateEmbeddings") =>
          /\ ~Success(o.t.status) /\ o.t.count = -1
          /\ o.t.calls[Len(o.t.calls)] = "generateEmbeddings"
          /\ o.t.inserted = {}

\* With a failing provider, a create request with a text was answered 500
\* after its prompt was stored, and an upload to that prompt fails too,
\* its file processed and the provider asked.
C13_Witness ==
  /\ ~useMock /\ resp.op = "create" /\ resp.status = 500
  /\ PromptById(Current, resp.pid) # {}
  /\ \E t \in UploadRequests :
       /\ t.dom = resp.dom /\ t.pid = resp.pid /\ t.files = << UploadTxt >>
       /\ \A o \in Outcomes(t) :
            /\ o.t.status = 500 /\ o.t.failed = {}
            /\ o.t.calls[Len(o.t.calls)] = "generateEmbeddings"

\* C14: the OpenAI provider returns no vector to its caller when the API
\* call fails, when the answer holds no embedding, and when a returned
\* embedding has another dimension than the configured one, in the single
\* and in the batch call.
C14_ProviderRejectsBadAnswers ==
  LET answer == resp.results[1]
      wrong == {k \in 1..Len(answer.data) : Len(answer.data[k]) # Dimensions}
  IN /\ resp.op = "generateEmbedding" =>
          ((answer.error \/ Len(answer.data) = 0 \/ 1 \in wrong) => resp.status = 500)
     /\ resp.op = "generateEmbeddings" =>
          ((answer.error \/ Len(answer.data) = 0 \/ wrong # {}) => resp.status = 500)

RECURSIVE StripOverlap(_, _, _, _)
\* The chunks from the i-th on without the overlap prepended to each: as
\* many leading characters as the overlap took from the chunk before,
\* whose own length without overlap is prevLen.
StripOverlap(chunks, i, prevLen, overlap) ==
  IF i > Len(chunks) THEN << >>
  ELSE LET cut == IF i = 1 THEN 0 ELSE Min2(overlap, prevLen)
           own == SubSeq(chunks[i], Min2(cut, Len(chunks[i])) + 1, Len(chunks[i]))
       IN << own >> \o StripOverlap(chunks, i + 1, Len(own), overlap)

RECURSIVE Concat(_)
Concat(seqs) == IF seqs = << >> THEN << >> ELSE Head(seqs) \o Concat(Tail(seqs))

\* C15: the chunks of a text, each after the first without the overlap
\* prepended to it, concatenate to the text.
C15_ChunksReconstructText ==
  resp.op = "splitText" =>
    Concat(StripOverlap(resp.chunks, 1, 0, resp.results[1].chunkOverlap)) = resp.data

\* C16: the list findRelatedPrompts returns names each prompt at most
\* once, and each entry's chunkCount is the number of the tenant's
\* embeddings of that prompt whose score is at least minSimilarity.
C16_RelatedCountsChunks ==
  resp.op = "related" =>
    LET qv == CHOOSE v \in generateQueryEmbedding(resp.mock, resp.query) : TRUE
        passing(pid) == {e \in embeddings :
                           /\ e.domainId = resp.dom /\ e.promptId = pid
                           /\ similarityScore(e.vector, qv) >= resp.minSimilarity}
    IN /\ \A j, k \in 1..Len(resp.results) :
            resp.results[j].promptId = resp.results[k].promptId => j = k
       /\ \A k \in 1..Len(resp.results) :
            resp.results[k].chunkCount = Cardinality(passing(resp.results[k].promptId))

\* A related-prompts query returned two prompts, one with two chunks
\* counted and one with one.
C16_Witness ==
  /\ resp.op = "related" /\ Len(resp.results) = 2
  /\ \E k \in 1..2 : resp.results[k].chunkCount = 2
  /\ \E k \in 1..2 : resp.results[k].chunkCount = 1

C18_EmptyUploadRejected ==
  \A t \in EmptyUploadRequests :
    PromptOwned(Current, t.pid, t.dom) # {} /\ RoomFor(0, MaxPrompts, 1) =>
      \A o \in Outcomes(t) :
        /\ o.t.status = 400
        /\ o.w.promptFiles = promptFiles
        /\ o.w.blobs = blobs
        /\ o.w.embeddings = embeddings

\* The extensions of detectMimeType's table
TableExtensions ==
  { <<"t", "x", "t">>, <<"m", "d">>, <<"m", "a", "r", "k", "d", "o", "w", "n">>,
    <<"h", "t", "m", "l">>, <<"h", "t", "m">>, <<"j", "s", "o", "n">>,
    <<"j", "s">>, <<"t", "s">>, <<"c", "s", "s">>, <<"x", "m", "l">>,
    <<"p", "d", "f">> }

\* The filename has a dot, and what follows its last dot is, in lower
\* case, an extension of the table.
HasTableExtension(filename) ==
  \E k \in 1..Len(filename) :
    /\ filename[k] = "."
    /\ \A j \in (k + 1)..Len(filename) : filename[j] # "."
    /\ ToLowerCase(SubSeq(filename, k + 1, Len(filename))) \in TableExtensions

\* C19: for a filename with no extension of the table (another extension,
\* or none), detectMimeType returns application/octet-stream and
\* extractText with that type fails.
C19_UnknownExtensionRejected ==
  resp.op = "detectMimeType" /\ ~HasTableExtension(resp.data) =>
    /\ resp.results[1] = OctetStream
    /\ ~resp.results[2].ok

\* C20: an apply that asks for context returns as context used a result
\* of similaritySearch for the request's tenant, prompt id, topK and
\* minSimilarity, in the search's order, each chunk tagged "file" when its
\* chunk id starts with file_ and "prompt" otherwise; an apply that does
\* not ask for context runs no search and returns no context.
C20_ContextUsed ==
  \A t \in ContextRequests : \A o \in Outcomes(t) :
    o.t.status = 200 =>
      IF t.includeContext
      THEN /\ o.t.calls = << "similaritySearch", "generateResponse" >>
           /\ \E qv \in generateQueryEmbedding(useMock, t.query) :
                \E r \in similaritySearch(Current, t.dom, qv, t.topK, t.minSimilarity, t.pid) :
                  /\ Len(o.t.results) = Len(r)
                  /\ \A k \in 1..Len(r) :
                       /\ o.t.results[k].chunkId = r[k].chunkId
                       /\ o.t.results[k].text = r[k].text
                       /\ o.t.results[k].similarityScore = r[k].similarityScore
                       /\ o.t.results[k].source =
                            IF r[k].chunkId[1] = "file" THEN "file" ELSE "prompt"
           /\ Len(o.t.results) <= t.topK
           /\ \A k \in 1..Len(o.t.results) :
                /\ o.t.results[k].similarityScore >= t.minSimilarity
                /\ \E e \in embeddings :
                     /\ e.domainId = t.dom /\ e.promptId = t.pid
                     /\ e.chunkId = o.t.results[k].chunkId
                     /\ e.text = o.t.results[k].text
      ELSE o.t.calls = << "generateResponse" >> /\ o.t.results = << >>

\* An apply for a prompt with a file returns a file chunk and a prompt
\* chunk as context used while a chunk of the tenant's other prompt scores
\* as high as the best one returned; an apply without context answers too.
C20_Witness ==
  /\ \E t \in ContextRequests : \E o \in Outcomes(t) :
       /\ o.t.status = 200 /\ t.includeContext
       /\ \E k \in 1..Len(o.t.results) : o.t.results[k].source = "file"
       /\ \E k \in 1..Len(o.t.results) : o.t.results[k].source = "prompt"
       /\ \E e \in embeddings, qv \in generateQueryEmbedding(useMock, t.query) :
            /\ e.domainId = t.dom /\ e.promptId # t.pid
            /\ similarityScore(e.vector, qv) >= o.t.results[1].similarityScore
  /\ \E t \in ContextRequests : \E o \in Outcomes(t) :
       /\ o.t.status = 200 /\ ~t.includeContext
       /\ EmbeddingsOf(Current, t.pid) # {}

\* C21: once the concurrent reindexes of a prompt have completed, the
\* prompt's embeddings are the set one of them wrote: no chunk id of the
\* prompt is stored twice.
C21_LastWriterWins ==
  (\A s \in 1..MaxTasks : ~Running(s)) =>
    \A e1, e2 \in embeddings :
      e1.promptId = e2.promptId /\ e1.chunkId = e2.chunkId => e1 = e2

\* The reindexes of prompt pid between their delete and their insert
InFlight(pid) ==
  {s \in 1..MaxTasks :
     /\ tasks[s].pid = pid
     /\ tasks[s].pc \in {"rx_load", "rx_files", "rx_file", "rx_save", "rx_insert"}}

\* C22: with a working provider, a prompt that has a text is seen without
\* embeddings only while a reindex of it is between its delete and its
\* insert; once no reindex of it is in flight its embeddings are present.
C22_EmptyOnlyInFlight ==
  useMock =>
    \A p \in prompts :
      p.prompt # << >> /\ EmbeddingsOf(Current, p.id) = {} =>
        \/ InFlight(p.id) # {}
        \/ \E s \in 1..MaxTasks : tasks[s].pid = p.id /\ tasks[s].pc = "rx_delete"

\* A reindex of a prompt that had embeddings and has a text is past its
\* delete and before its insert, and a search scoped to the prompt returns
\* nothing.
C22_Witness ==
  \E s \in 1..MaxTasks, p \in prompts :
    /\ s \in InFlight(p.id) /\ tasks[s].pre # {} /\ p.prompt # << >>
    /\ tasks[s].pc = "rx_insert" /\ useMock
    /\ \A qv \in generateQueryEmbedding(TRUE, QueryText) :
         similaritySearch(Current, p.domainId, qv, ApplyTopK, 0, p.id) = { << >> }

\* C23: a create or update that starts its reindex in the background
\* answers 201 or 200 with the stored prompt whatever the reindex does, and
\* no later step of the reindex changes that answer.
C23_BackgroundNeverFailsRequest ==
  /\ resp.op = "create" /\ resp.bodyOk =>
       /\ resp.status = 201
       /\ resp.results = << [id |-> resp.pid, domainId |-> resp.dom, prompt |-> resp.data] >>
  /\ resp.op = "update" /\ resp.bodyOk /\ resp.count = 1 =>
       /\ resp.status = 200
       /\ Len(resp.results) = 1 /\ resp.results[1].id = resp.pid
       /\ resp.data # << >> => resp.results[1].prompt = resp.data

\* An update was answered 200 while one background reindex of its prompt
\* has failed and another is still running.
C23_Witness ==
  /\ resp.op = "update" /\ resp.status = 200 /\ resp.data # << >>
  /\ \E s \in 1..MaxTasks :
       tasks[s].op = "reindex" /\ tasks[s].pc = "done" /\ tasks[s].status = 500
  /\ \E s \in 1..MaxTasks :
       tasks[s].op = "reindex" /\ tasks[s].pc \in ReindexPcs /\ tasks[s].pid = resp.pid

\* The best topK rows among those at or above the threshold: the filter
\* first, the limit second
BestAboveThreshold(w, domainId, qv, topK, minSimilarity, scope) ==
  RankedOrders({r \in {SearchResult(e, qv) : e \in SearchScope(w, domainId, scope)}
                  : r.similarityScore >= minSimilarity}, topK)

\* Some search the store allows has a result that is not one of the best
\* topK above the threshold, or misses one of them
OrderMatters ==
  \E t \in SearchRequests : \E qv \in generateQueryEmbedding(t.mock, t.query) :
    similaritySearch(Current, t.dom, qv, t.topK, t.minSimilarity, t.scope)
      # BestAboveThreshold(Current, t.dom, qv, t.topK, t.minSimilarity, t.scope)

\* C24 as stated: for some store content, topK and minSimilarity the limit
\* before the filter returns something else than the filter before the
\* limit.
C24_OrderMatters == <>OrderMatters

\* C24: similaritySearch limits to the topK highest-scoring rows in scope
\* and then drops those below minSimilarity, and its results are exactly
\* the best topK rows among those at or above minSimilarity: the order of
\* limit and filter makes no difference.
C24_LimitThenFilterIsBest ==
  /\ ~OrderMatters
  /\ resp.op = "search" =>
       \E qv \in generateQueryEmbedding(resp.mock, resp.query) :
         /\ \E o \in RankedOrders({SearchResult(e, qv)
                                      : e \in SearchScope(Current, resp.dom, resp.scope)},
                                   resp.topK) :
              resp.results = SelectSeq(o, LAMBDA r : r.similarityScore >= resp.minSimilarity)
         /\ resp.results \in BestAboveThreshold(Current, resp.dom, qv, resp.topK,
                                                 resp.minSimilarity, resp.scope)

\* A search answered with fewer than topK rows from a scope of more than
\* topK rows: the limit left rows out and the filter then dropped a row
\* the limit had kept.
C24_Witness ==
  /\ resp.op = "search" /\ resp.minSimilarity > 0
  /\ 0 < Len(resp.results) /\ Len(resp.results) < resp.topK
  /\ Cardinality(SearchScope(Current, resp.dom, resp.scope)) > resp.topK

\* C25: when splitText returns more than one chunk with chunkOverlap > 0,
\* each chunk after the first is the last chunkOverlap characters of the
\* preceding chunk before overlap, then its own text before overlap; the
\* chunks before overlap are those of the same split without overlap.
C25_OverlapNotCascaded ==
  resp.op = "splitText" /\ resp.results[1].chunkOverlap > 0 /\ Len(resp.chunks) > 1 =>
    LET plain == splitText(resp.data, resp.results[1].chunkSize, 0)
    IN /\ Len(resp.chunks) = Len(plain)
       /\ resp.chunks[1] = plain[1]
       /\ \A i \in 2..Len(plain) :
            resp.chunks[i] =
              SliceLast(plain[i - 1], resp.results[1].chunkOverlap) \o plain[i]

\* C28: every chunk splitText returns is at most chunkSize + chunkOverlap
\* characters long.
C28_ChunkLengthBound ==
  resp.op = "splitText" =>
    \A i \in 1..Len(resp.chunks) :
      Len(resp.chunks[i]) <= resp.results[1].chunkSize + resp.results[1].chunkOverlap

\* The scores of the tenant's chunks of prompt pid for the query of a
\* related-prompts request r
ScoresOf(r, pid) ==
  LET qv == CHOOSE v \in generateQueryEmbedding(r.mock, r.query) : TRUE
  IN { similarityScore(e.vector, qv)
       : e \in {x \in embeddings : x.domainId = r.dom /\ x.promptId = pid} }

\* C26: each entry findRelatedPrompts returns carries the highest score of
\* its prompt's chunks in the tenant; the entries are in non-increasing
\* order of maxSimilarity, at most topK of them; a prompt left out whose
\* best score reaches minSimilarity scores no higher than the last entry
\* returned, and is left out only by a list of topK entries.
C26_RelatedBestScores ==
  resp.op = "related" =>
    /\ Len(resp.results) <= resp.topK
    /\ \A k \in 1..Len(resp.results) :
         /\ resp.results[k].maxSimilarity \in ScoresOf(resp, resp.results[k].promptId)
         /\ \A x \in ScoresOf(resp, resp.results[k].promptId) :
              x <= resp.results[k].maxSimilarity
    /\ \A k \in 1..(Len(resp.results) - 1) :
         resp.results[k].maxSimilarity >= resp.results[k + 1].maxSimilarity
    /\ \A p \in {q \in prompts : q.domainId = resp.dom} :
         (/\ \A k \in 1..Len(resp.results) : resp.results[k].promptId # p.id
          /\ \E x \in ScoresOf(resp, p.id) : x >= resp.minSimilarity)
           => /\ Len(resp.results) = resp.topK
              /\ \A x \in ScoresOf(resp, p.id) :
                   x <= resp.results[Len(resp.results)].maxSimilarity

\* A related-prompts query with topK = 1 returned a prompt with two chunks
\* of different scores and left out a prompt whose best chunk passes the
\* threshold.
C26_Witness ==
  /\ resp.op = "related" /\ resp.topK = 1 /\ Len(resp.results) = 1
  /\ Cardinality(ScoresOf(resp, resp.results[1].promptId)) = 2
  /\ \E p \in prompts :
       /\ p.domainId = resp.dom /\ p.id # resp.results[1].promptId
       /\ \E x \in ScoresOf(resp, p.id) : x >= resp.minSimilarity

\* The number of calls named call in a request's log
CallCount(t, call) == Cardinality({k \in 1..Len(t.calls) : t.calls[k] = call})

Configured(mock) == [Current EXCEPT !.useMock = mock]

\* C29: a reindex that fails after its delete leaves its prompt without
\* embeddings, whether the prompt is missing, the provider fails or the
\* insert is rejected: the rows it deleted are not back and no row of the
\* new batch is stored.
C29_FailedReindexLeavesNone ==
  /\ \A mock \in BOOLEAN :
       \A t \in ReindexingRequests : \A o \in Run(Configured(mock), t) :
         (CallCount(o.t, "deleteEmbeddings") = 1 /\ o.t.count = -1) =>
           /\ ~Success(o.t.status)
           /\ EmbeddingsOf(o.w, o.t.pid) = {}
  /\ \A t \in SaveCalls :
       \A o \in Run(deleteEmbeddingsForPrompt(Current, t.dom, t.pid), t) :
         o.t.count = -1 => ~Success(o.t.status) /\ EmbeddingsOf(o.w, t.pid) = {}

\* A prompt has embeddings; its reindex by a service whose provider fails
\* ends without them, and so does a reindex whose insert is rejected for
\* the second of two vectors.
C29_Witness ==
  \E p \in prompts :
    /\ EmbeddingsOf(Current, p.id) # {}
    /\ \E t \in PromptRequests("reindex") :
         /\ t.pid = p.id /\ t.dom = p.domainId
         /\ \A o \in Run(Configured(FALSE), t) :
              /\ o.t.status = 500 /\ EmbeddingsOf(o.w, p.id) = {}
              /\ o.t.calls[Len(o.t.calls)] = "generateEmbeddings"
    /\ \E t \in SaveCalls :
         /\ t.pid = p.id /\ Len(t.chunks) = 2 /\ Len(t.vectors) = 2
         /\ Len(t.vectors[1]) = Dimensions /\ Len(t.vectors[2]) # Dimensions
         /\ \A o \in Run(deleteEmbeddingsForPrompt(Current, t.dom, t.pid), t) :
              o.t.status = 500 /\ EmbeddingsOf(o.w, p.id) = {}

\* C30: with requests served one at a time by a working provider, every
\* stored file record's path names a blob of the blob store, and no two
\* file records share a path.
C30_FilesHaveTheirBlob ==
  useMock =>
    \A f \in promptFiles :
      /\ BlobAt(Current, f.nextcloudPath) # {}
      /\ \A g \in promptFiles : g.nextcloudPath = f.nextcloudPath => g = f

=============================================================================
